---- MODULE Spec2Model ----
(***************************************************************************)
(* The field-centric join scripts of the agricultural data toolkit:        *)
(*   scripts/visualize_dashboard.py     create_dashboard                   *)
(*   scripts/a2_merge_data.py           main                               *)
(*   scripts/a2_visualize_map.py        main                               *)
(*   scripts/fetch_assignment2_data.py  main, with the adapters'           *)
(*                                      download_for_fields                *)
(* Tables are pandas data frames: an ordered list of column names and an   *)
(* ordered list of rows, a row being a function from column name to cell.  *)
(* A cell is a tagged tuple: <<"na">> (NaN/None), <<"id", i>> (the i-th    *)
(* field_id in sort order), <<"s", text>>, <<"n", int>>, or <<"f", s, c>>  *)
(* (the float s/c, kept as sum and count).                                 *)
(***************************************************************************)
EXTENDS Integers, Sequences, FiniteSets, TLC

VARIABLES
    prog,        \* the script being run
    pc,          \* its position
    fs,          \* the attribute files as the script found or wrote them:
                 \* source -> kind of file ("unseen" until then)
    svc,         \* the external services' answer for each field
    base,        \* the field table on disk (the GeoJSON the script reads)
    gdf,         \* the script's gdf / merged_gdf
    soil_df,     \* soil_df, from pd.read_csv (NoTable before it is read)
    weather_df,  \* weather_df
    crop_df,     \* crop_df
    log,         \* what the script printed, in order: <<message, numbers in it>>
    exc,         \* the exception that ended the script, "none" otherwise
    out,         \* the file the script wrote (its table), NoTable if none
    arg0,        \* standardize_schema: the caller's table as it was before the
                 \* first call
    arg,         \* the table object passed to the latest call, as it is now
    ret,         \* the table the latest call returned, NoTable if it raised
    ret1         \* the table the first call returned, as it was returned

stdvars == <<arg0, arg, ret, ret1>>
vars == <<prog, pc, fs, svc, base, gdf, soil_df, weather_df, crop_df, log, exc, out,
          arg0, arg, ret, ret1>>

-----------------------------------------------------------------------------
(* Bounds of the model *)

MaxBase == 2          \* rows of the base field table
MaxSoilRows == 2      \* rows of a soil CSV
MaxWeatherRows == 2   \* rows of a weather CSV
MaxCropRows == 2      \* rows of a crop CSV

-----------------------------------------------------------------------------
(* Cells *)

NA == <<"na">>
Str(s) == <<"s", s>>
Num(n) == <<"n", n>>
Id(i) == <<"id", i>>
Mean(s, c) == <<"f", s, c>>
IsNA(v) == v[1] = "na"

NoTable == [cols |-> <<>>, rows |-> <<>>, none |-> TRUE]
Table(cols, rows) == [cols |-> cols, rows |-> rows]
IsTable(t) == DOMAIN t = {"cols", "rows"}

SeqRange(s) == {s[i] : i \in DOMAIN s}
HasCol(t, c) == c \in SeqRange(t.cols)
SeqFilterOut(s, c) == SelectSeq(s, LAMBDA x : x # c)

\* The field ids of a table, one per row, in row order.
FieldIds(t) == [i \in DOMAIN t.rows |-> t.rows[i]["field_id"]]
Keys(t) == {t.rows[i]["field_id"] : i \in DOMAIN t.rows}

-----------------------------------------------------------------------------
(* Input files *)

\* An attribute record whose field_id is in no base table: field ids are
\* numbered in order of first appearance in the base table, which has at
\* most MaxBase of them.
OrphanId == MaxBase + 1
AttrIds == 1 .. OrphanId

\* Sequences of 1..n ids in which a new id is always the least unused one.
Canonical(s) ==
    /\ s[1] = 1
    /\ \A i \in 2 .. Len(s) : \E j \in 1 .. (i - 1) : s[i] <= s[j] + 1

BaseIdSeqs ==
    UNION {{s \in [1 .. n -> 1 .. MaxBase] : Canonical(s)} : n \in 1 .. MaxBase}

BaseRow(i) == [field_id |-> Id(i), geometry |-> <<"geom", i>>]
BaseTables ==
    {Table(<<"field_id", "geometry">>, [k \in DOMAIN s |-> BaseRow(s[k])]) :
        s \in BaseIdSeqs}

SeqsUpTo(S, n) == UNION {[1 .. k -> S] : k \in 0 .. n}

\* A soil CSV (the columns a2_stretch_soil_mock.py writes, ph_water left
\* out): dominant_soil may be missing; om_pct numbers the rows of the file, so
\* that a value tells which row it came from.
SoilCols == <<"field_id", "dominant_soil", "om_pct">>
SoilTable(r) ==
    Table(SoilCols,
          [k \in DOMAIN r |->
             [field_id |-> Id(r[k][1]), dominant_soil |-> r[k][2], om_pct |-> Num(k)]])
\* A CSV with no field_id column (more than 10 bytes long).
NoKeyTable == Table(<<"dominant_soil">>, <<[dominant_soil |-> Str("Loam")]>>)
SoilTables ==
    {SoilTable(r) : r \in SeqsUpTo(AttrIds \X {NA, Str("Loam")}, MaxSoilRows)}
        \cup {NoKeyTable}

\* A weather CSV: one record per field and day.
WeatherCols == <<"field_id", "T2M", "PRECTOTCORR">>
WeatherTable(s) ==
    Table(WeatherCols,
          [k \in DOMAIN s |-> [field_id |-> Id(s[k]), T2M |-> Num(20), PRECTOTCORR |-> Num(5)]])
WeatherTables ==
    {WeatherTable(s) : s \in SeqsUpTo(AttrIds, MaxWeatherRows)} \cup {NoKeyTable}

\* A crop CSV: one record per field and year.
CropCols == <<"field_id", "year", "crop_name">>
CropTable(r) ==
    Table(CropCols,
          [k \in DOMAIN r |->
             [field_id |-> Id(r[k][1]), year |-> Num(r[k][2]), crop_name |-> Str("Corn")]])
CropTables ==
    {CropTable(r) : r \in SeqsUpTo(AttrIds \X {2022, 2023}, MaxCropRows)}
        \cup {NoKeyTable}

Sources == {"soil", "weather", "crop"}
\* absent: no such file; small: at most 10 bytes (what to_csv writes for an
\* empty frame); empty: longer, but nothing to parse (pd.read_csv raises
\* EmptyDataError); table: a CSV with a header line.
FileKinds == {"absent", "small", "empty", "table"}
Unseen == [s \in Sources |-> "unseen"]
Found(s, k) == fs' = [fs EXCEPT ![s] = k]

-----------------------------------------------------------------------------
(* pandas operations *)

RECURSIVE FirstNonNull(_, _)
FirstNonNull(rows, c) ==
    IF rows = <<>> THEN NA
    ELSE IF ~IsNA(Head(rows)[c]) THEN Head(rows)[c]
    ELSE FirstNonNull(Tail(rows), c)

\* The distinct keys of a table in ascending order (groupby sorts its groups).
RECURSIVE SortedIds(_)
SortedIds(S) ==
    IF S = {} THEN <<>>
    ELSE LET m == CHOOSE x \in S : \A y \in S : x[2] <= y[2]
         IN <<m>> \o SortedIds(S \ {m})

GroupRows(t, k) == SelectSeq(t.rows, LAMBDA r : r["field_id"] = k)

\* Faulty variant: the frame is merged as read, without grouping (as a2_visualize_map
\* does with its soil table).
GroupByFirstKeepAll(t) ==
    Table(<<"field_id">> \o SeqFilterOut(t.cols, "field_id"), t.rows)

\* df.groupby('field_id').first().reset_index(): one row per key; each other
\* column holds the first non-null entry of the column within the group.
GroupByFirst(t) ==
    LET rest == SeqFilterOut(t.cols, "field_id")
        keys == SortedIds(Keys(t))
        row(k) == [c \in SeqRange(t.cols) |->
                     IF c = "field_id" THEN k ELSE FirstNonNull(GroupRows(t, k), c)]
    IN Table(<<"field_id">> \o rest, [i \in DOMAIN keys |-> row(keys[i])])

RECURSIVE SumOf(_, _)
SumOf(rows, c) ==
    IF rows = <<>> THEN 0
    ELSE (IF IsNA(Head(rows)[c]) THEN 0 ELSE Head(rows)[c][2]) + SumOf(Tail(rows), c)

CountOf(rows, c) == Len(SelectSeq(rows, LAMBDA r : ~IsNA(r[c])))

\* groupby('field_id').agg({'T2M': 'mean', 'PRECTOTCORR': 'sum'}).reset_index()
\* and the rename of line 40: the mean skips NaN (NaN when nothing is left),
\* the sum skips NaN (0 when nothing is left).
WeatherSummary(t) ==
    LET keys == SortedIds(Keys(t))
        row(k) == LET g == GroupRows(t, k)
                  IN [field_id |-> k,
                      Avg_Temp_C |-> IF CountOf(g, "T2M") = 0 THEN NA
                                     ELSE Mean(SumOf(g, "T2M"), CountOf(g, "T2M")),
                      Total_Precip_mm |-> Num(SumOf(g, "PRECTOTCORR"))]
    IN Table(<<"field_id", "Avg_Temp_C", "Total_Precip_mm">>,
             [i \in DOMAIN keys |-> row(keys[i])])

\* Faulty variant: the rename is lost (rename without inplace=True).
RenameNothing(t, p) == t

\* rename(columns={c: prefix + c for c in columns if c != 'field_id'})
Prefixed(p, c) == IF c = "field_id" THEN c ELSE p \o c
RenameRow(r, p) ==
    [c \in {Prefixed(p, k) : k \in DOMAIN r} |->
        r[CHOOSE k \in DOMAIN r : Prefixed(p, k) = c]]
RenamePrefix(t, p) ==
    Table([i \in DOMAIN t.cols |-> Prefixed(p, t.cols[i])],
          [i \in DOMAIN t.rows |-> RenameRow(t.rows[i], p)])

\* left.merge(right, on='field_id', how=...): columns of both sides, a column
\* name that both sides hold (other than the key) gets the suffix _x or _y.
MergeCols(L, R) ==
    LET LN(c) == IF c # "field_id" /\ HasCol(R, c) THEN c \o "_x" ELSE c
        RN(c) == IF HasCol(L, c) THEN c \o "_y" ELSE c
        rest == SeqFilterOut(R.cols, "field_id")
    IN [i \in DOMAIN L.cols |-> LN(L.cols[i])] \o [i \in DOMAIN rest |-> RN(rest[i])]

JoinRow(L, R, l, r) ==
    LET LN(c) == IF c # "field_id" /\ HasCol(R, c) THEN c \o "_x" ELSE c
        RN(c) == IF HasCol(L, c) THEN c \o "_y" ELSE c
        rc == SeqRange(R.cols) \ {"field_id"}
    IN [c \in SeqRange(MergeCols(L, R)) |->
          IF \E k \in SeqRange(L.cols) : LN(k) = c
          THEN l[CHOOSE k \in SeqRange(L.cols) : LN(k) = c]
          ELSE r[CHOOSE k \in rc : RN(k) = c]]

NullRow(t) == [c \in SeqRange(t.cols) |-> NA]

RECURSIVE LeftRows(_, _, _)
LeftRows(L, R, i) ==
    IF i > Len(L.rows) THEN <<>>
    ELSE LET l == L.rows[i]
             m == GroupRows(R, l["field_id"])
             rs == IF m = <<>> THEN <<NullRow(R)>> ELSE m
         IN [j \in DOMAIN rs |-> JoinRow(L, R, l, rs[j])] \o LeftRows(L, R, i + 1)

RECURSIVE InnerRows(_, _, _)
InnerRows(L, R, i) ==
    IF i > Len(L.rows) THEN <<>>
    ELSE LET l == L.rows[i]
             m == GroupRows(R, l["field_id"])
         IN [j \in DOMAIN m |-> JoinRow(L, R, l, m[j])] \o InnerRows(L, R, i + 1)

\* Faulty variant: how='inner', the default of merge.
MergeInner(L, R) == Table(MergeCols(L, R), InnerRows(L, R, 1))

RightOnlyRows(L, R) ==
    LET rs == SelectSeq(R.rows, LAMBDA r : r["field_id"] \notin Keys(L))
    IN [j \in DOMAIN rs |->
          JoinRow(L, R, [NullRow(L) EXCEPT !["field_id"] = rs[j]["field_id"]], rs[j])]

\* Faulty variant: how='outer'.
MergeOuter(L, R) == Table(MergeCols(L, R), LeftRows(L, R, 1) \o RightOnlyRows(L, R))

\* how='left': every left row, once per matching right row, in left order.
MergeLeft(L, R) == Table(MergeCols(L, R), LeftRows(L, R, 1))

\* gdf[col].fillna(v).astype(str) of one cell; a numeric column with a NaN in
\* it is a float column, whose integers print with a trailing ".0".
AsStr(v, isFloat) ==
    CASE v[1] = "n" -> Str(ToString(v[2]) \o (IF isFloat THEN ".0" ELSE ""))
      [] v[1] = "f" -> Str(ToString(v[2]) \o "/" \o ToString(v[3]))
      [] OTHER -> v

FillCell(v, fill, isFloat) == IF IsNA(v) THEN Str(fill) ELSE AsStr(v, isFloat)

\* Faulty variant: the filled column is not assigned back.
FillNaNotAssigned(t, fill) == t

\* for col in gdf.columns: if col != 'geometry':
\*     gdf[col] = gdf[col].fillna(fill).astype(str)
FillNaAsStr(t, fill) ==
    LET hasNA(c) == \E i \in DOMAIN t.rows : IsNA(t.rows[i][c])
    IN Table(t.cols,
             [i \in DOMAIN t.rows |->
                [c \in SeqRange(t.cols) |->
                   IF c = "geometry" THEN t.rows[i][c]
                   ELSE FillCell(t.rows[i][c], fill, hasNA(c))]])

-----------------------------------------------------------------------------
(* scripts/visualize_dashboard.py: create_dashboard *)

\* line 17: gpd.read_file raises when FIELD_FILE cannot be read (there is no
\* such file); nothing catches it.
DashLoadFails ==
    /\ prog = "dashboard" /\ pc = "load"
    /\ ~IsTable(base)
    /\ exc' = "DataSourceError"
    /\ pc' = "crashed"
    /\ UNCHANGED <<prog, fs, svc, base, gdf, soil_df, weather_df, crop_df, log, out>>
    /\ UNCHANGED stdvars

\* line 17: gdf = gpd.read_file(FIELD_FILE)
DashLoad ==
    /\ prog = "dashboard" /\ pc = "load"
    /\ IsTable(base)
    /\ gdf' = base
    /\ pc' = "soil"
    /\ UNCHANGED <<prog, fs, svc, base, soil_df, weather_df, crop_df, log, exc, out>>
    /\ UNCHANGED stdvars

\* Path(F).exists() and Path(F).stat().st_size > 10
Readable(k) == k \in {"empty", "table"}

\* lines 25-29
SoilJoin(g, df) == MergeLeft(g, RenamePrefix(GroupByFirst(df), "Soil_"))

\* line 20, the test fails: the soil block is passed over, nothing is printed.
DashSoilSkip ==
    /\ prog = "dashboard" /\ pc = "soil"
    /\ \E k \in FileKinds : ~Readable(k) /\ Found("soil", k)
    /\ pc' = "weather"
    /\ UNCHANGED <<prog, svc, base, gdf, soil_df, weather_df, crop_df, log, exc, out>>
    /\ UNCHANGED stdvars

\* lines 22, 30-31: pd.read_csv raises EmptyDataError, which is caught.
DashSoilEmpty ==
    /\ prog = "dashboard" /\ pc = "soil"
    /\ Found("soil", "empty")
    /\ log' = Append(log, <<"soil_empty_skipped">>)
    /\ pc' = "weather"
    /\ UNCHANGED <<prog, svc, base, gdf, soil_df, weather_df, crop_df, exc, out>>
    /\ UNCHANGED stdvars

\* lines 22-29: the file parses. groupby('field_id') raises KeyError when the
\* CSV has no such column; line 30 catches EmptyDataError only.
DashSoilRead(tables) ==
    /\ prog = "dashboard" /\ pc = "soil"
    /\ Found("soil", "table")
    /\ \E t \in tables :
         /\ soil_df' = t
         /\ IF HasCol(t, "field_id")
            THEN gdf' = SoilJoin(gdf, t) /\ pc' = "weather" /\ exc' = exc
            ELSE gdf' = gdf /\ pc' = "crashed" /\ exc' = "KeyError"
    /\ UNCHANGED <<prog, svc, base, weather_df, crop_df, log, out>>
    /\ UNCHANGED stdvars

\* lines 36-41
WeatherJoin(g, df) == MergeLeft(g, WeatherSummary(df))

\* line 33, the test fails. (soil_df is not read after line 29.)
DashWeatherSkip ==
    /\ prog = "dashboard" /\ pc = "weather"
    /\ \E k \in FileKinds : ~Readable(k) /\ Found("weather", k)
    /\ pc' = "crop"
    /\ soil_df' = NoTable
    /\ UNCHANGED <<prog, svc, base, gdf, weather_df, crop_df, log, exc, out>>
    /\ UNCHANGED stdvars

\* Faulty variant: the handler of line 42 swallows the error (except: pass).
DashWeatherEmptySilent ==
    /\ prog = "dashboard" /\ pc = "weather"
    /\ Found("weather", "empty")
    /\ pc' = "crop"
    /\ soil_df' = NoTable
    /\ UNCHANGED <<prog, svc, base, gdf, weather_df, crop_df, log, exc, out>>
    /\ UNCHANGED stdvars

\* lines 35, 42-43: pd.read_csv raises EmptyDataError; every Exception is
\* caught.
DashWeatherEmpty ==
    /\ prog = "dashboard" /\ pc = "weather"
    /\ Found("weather", "empty")
    /\ log' = Append(log, <<"weather_error">>)
    /\ pc' = "crop"
    /\ soil_df' = NoTable
    /\ UNCHANGED <<prog, svc, base, gdf, weather_df, crop_df, exc, out>>
    /\ UNCHANGED stdvars

\* lines 35-43: the file parses; the KeyError of groupby/agg when a column is
\* not in the CSV is caught.
DashWeatherRead(tables) ==
    /\ prog = "dashboard" /\ pc = "weather"
    /\ Found("weather", "table")
    /\ \E t \in tables :
         /\ weather_df' = t
         /\ IF HasCol(t, "field_id") /\ HasCol(t, "T2M") /\ HasCol(t, "PRECTOTCORR")
            THEN gdf' = WeatherJoin(gdf, t) /\ log' = log
            ELSE gdf' = gdf /\ log' = Append(log, <<"weather_error">>)
    /\ pc' = "crop"
    /\ soil_df' = NoTable
    /\ UNCHANGED <<prog, svc, base, crop_df, exc, out>>
    /\ UNCHANGED stdvars

\* lines 48-51
CropJoin(g, df) == MergeLeft(g, RenamePrefix(GroupByFirst(df), "Crop_"))

\* line 45, the test fails. (weather_df is not read after line 39.)
DashCropSkip ==
    /\ prog = "dashboard" /\ pc = "crop"
    /\ \E k \in FileKinds : ~Readable(k) /\ Found("crop", k)
    /\ pc' = "fill"
    /\ weather_df' = NoTable
    /\ UNCHANGED <<prog, svc, base, gdf, soil_df, crop_df, log, exc, out>>
    /\ UNCHANGED stdvars

\* lines 47, 52-53: pd.read_csv raises EmptyDataError; every Exception is
\* caught.
DashCropEmpty ==
    /\ prog = "dashboard" /\ pc = "crop"
    /\ Found("crop", "empty")
    /\ log' = Append(log, <<"crop_error">>)
    /\ pc' = "fill"
    /\ weather_df' = NoTable
    /\ UNCHANGED <<prog, svc, base, gdf, soil_df, crop_df, exc, out>>
    /\ UNCHANGED stdvars

\* lines 47-53: the file parses; the KeyError of groupby is caught.
DashCropRead(tables) ==
    /\ prog = "dashboard" /\ pc = "crop"
    /\ Found("crop", "table")
    /\ \E t \in tables :
         /\ crop_df' = t
         /\ IF HasCol(t, "field_id")
            THEN gdf' = CropJoin(gdf, t) /\ log' = log
            ELSE gdf' = gdf /\ log' = Append(log, <<"crop_error">>)
    /\ pc' = "fill"
    /\ weather_df' = NoTable
    /\ UNCHANGED <<prog, svc, base, soil_df, exc, out>>
    /\ UNCHANGED stdvars

\* lines 56-59. (crop_df is not read after line 50.)
DashFill ==
    /\ prog = "dashboard" /\ pc = "fill"
    /\ gdf' = FillNaAsStr(gdf, "N/A")
    /\ pc' = "map"
    /\ crop_df' = NoTable
    /\ UNCHANGED <<prog, fs, svc, base, soil_df, weather_df, log, exc, out>>
    /\ UNCHANGED stdvars

\* Faulty variant: the map is saved from within the soil block.
DashSaveEarly ==
    /\ prog = "dashboard" /\ pc = "weather"
    /\ out' = gdf
    /\ log' = Append(log, <<"dashboard_generated">>)
    /\ pc' = "done"
    /\ UNCHANGED <<prog, fs, svc, base, gdf, soil_df, weather_df, crop_df, exc>>
    /\ UNCHANGED stdvars

\* lines 61-104: the map is built from gdf and saved.
DashSave ==
    /\ prog = "dashboard" /\ pc = "map"
    /\ out' = gdf
    /\ log' = Append(log, <<"dashboard_generated">>)
    /\ pc' = "done"
    /\ UNCHANGED <<prog, fs, svc, base, gdf, soil_df, weather_df, crop_df, exc>>
    /\ UNCHANGED stdvars

-----------------------------------------------------------------------------
(* scripts/a2_merge_data.py: main *)

\* The years of a crop table, ascending (pivot sorts its columns).
RECURSIVE SortedNums(_)
SortedNums(S) ==
    IF S = {} THEN <<>>
    ELSE LET m == CHOOSE x \in S : \A y \in S : x <= y
         IN <<m>> \o SortedNums(S \ {m})

Years(t) == {t.rows[i]["year"][2] : i \in DOMAIN t.rows}

\* pivot raises ValueError ("Index contains duplicate entries") when two
\* records share field_id and year.
PivotDuplicates(t) ==
    \E i, j \in DOMAIN t.rows :
        /\ i < j
        /\ t.rows[i]["field_id"] = t.rows[j]["field_id"]
        /\ t.rows[i]["year"] = t.rows[j]["year"]

YearCol(y) == "crop_" \o ToString(y)

\* lines 18-22: crop_df.pivot(index='field_id', columns='year',
\* values='crop_name'), the columns renamed crop_<year>, reset_index().
CropPivot(t) ==
    LET keys == SortedIds(Keys(t))
        years == SortedNums(Years(t))
        cell(k, y) ==
            LET m == SelectSeq(t.rows,
                               LAMBDA r : r["field_id"] = k /\ r["year"][2] = y)
            IN IF m = <<>> THEN NA ELSE m[1]["crop_name"]
        row(k) == [c \in {"field_id"} \cup {YearCol(y) : y \in Years(t)} |->
                     IF c = "field_id" THEN k
                     ELSE cell(k, CHOOSE y \in Years(t) : YearCol(y) = c)]
    IN Table(<<"field_id">> \o [i \in DOMAIN years |-> YearCol(years[i])],
             [i \in DOMAIN keys |-> row(keys[i])])

\* line 25
MergeCrops(g, df) == MergeLeft(g, CropPivot(df))

\* lines 9-13: a file that cannot be read ends the script: there is no try.
MergeNoCrops ==
    /\ prog = "merge" /\ pc = "load"
    /\ \E k \in FileKinds \ {"table"} :
         /\ Found("crop", k)
         /\ exc' = IF k = "absent" THEN "FileNotFoundError" ELSE "EmptyDataError"
    /\ gdf' = base
    /\ pc' = "crashed"
    /\ UNCHANGED <<prog, svc, base, soil_df, weather_df, crop_df, log, out>>
    /\ UNCHANGED stdvars

\* lines 9-33
MergeMain(tables) ==
    /\ prog = "merge" /\ pc = "load"
    /\ Found("crop", "table")
    /\ \E t \in tables :
         /\ crop_df' = t
         /\ IF ~(HasCol(t, "field_id") /\ HasCol(t, "year") /\ HasCol(t, "crop_name"))
            THEN /\ gdf' = base /\ pc' = "crashed" /\ exc' = "KeyError"
                 /\ UNCHANGED <<log, out>>
            ELSE IF PivotDuplicates(t)
            THEN /\ gdf' = base /\ pc' = "crashed" /\ exc' = "ValueError"
                 /\ UNCHANGED <<log, out>>
            ELSE /\ gdf' = MergeCrops(base, t)
                 /\ out' = gdf'
                 /\ log' = log \o <<<<"merged_created">>, <<"total_merged", Len(gdf'.rows)>>>>
                 /\ pc' = "done"
                 /\ exc' = exc
    /\ UNCHANGED <<prog, svc, base, soil_df, weather_df>>
    /\ UNCHANGED stdvars

-----------------------------------------------------------------------------
(* scripts/a2_visualize_map.py: main, run on the file a2_merge_data wrote *)

\* lines 9-15: the merged file is read and its NaNs are cleaned.
MapLoad ==
    /\ prog = "merge" /\ pc = "done"
    /\ prog' = "map"
    /\ gdf' = FillNaAsStr(out, "Unknown")
    /\ out' = NoTable
    /\ crop_df' = NoTable
    /\ log' = <<>>
    /\ pc' = "soil"
    /\ UNCHANGED <<fs, svc, base, soil_df, weather_df, exc>>
    /\ UNCHANGED stdvars

\* line 20, the test fails.
MapSoilSkip ==
    /\ prog = "map" /\ pc = "soil"
    /\ \E k \in FileKinds : ~Readable(k) /\ Found("soil", k)
    /\ pc' = "map"
    /\ UNCHANGED <<prog, svc, base, gdf, soil_df, weather_df, crop_df, log, exc, out>>
    /\ UNCHANGED stdvars

\* lines 22, 24-25: pd.read_csv raises EmptyDataError; every Exception is
\* caught.
MapSoilEmpty ==
    /\ prog = "map" /\ pc = "soil"
    /\ Found("soil", "empty")
    /\ log' = Append(log, <<"soil_error">>)
    /\ pc' = "map"
    /\ UNCHANGED <<prog, svc, base, gdf, soil_df, weather_df, crop_df, exc, out>>
    /\ UNCHANGED stdvars

\* line 23
MapSoilJoin(g, df) == MergeLeft(g, df)

\* lines 21-25: the raw soil table is merged; the KeyError of a CSV with no
\* field_id column is caught.
MapSoilRead(tables) ==
    /\ prog = "map" /\ pc = "soil"
    /\ Found("soil", "table")
    /\ \E t \in tables :
         /\ soil_df' = t
         /\ IF HasCol(t, "field_id")
            THEN gdf' = MapSoilJoin(gdf, t) /\ log' = log
            ELSE gdf' = gdf /\ log' = Append(log, <<"soil_error">>)
    /\ pc' = "map"
    /\ UNCHANGED <<prog, svc, base, weather_df, crop_df, exc, out>>
    /\ UNCHANGED stdvars

\* lines 27-63
MapSave ==
    /\ prog = "map" /\ pc = "map"
    /\ out' = gdf
    /\ log' = Append(log, <<"map_created">>)
    /\ pc' = "done"
    /\ UNCHANGED <<prog, fs, svc, base, gdf, soil_df, weather_df, crop_df, exc>>
    /\ UNCHANGED stdvars

-----------------------------------------------------------------------------
(* The adapters' download_for_fields and scripts/fetch_assignment2_data.py *)

\* What a service does with the query for one field. ok: it answers with
\* data; neterr: requests raises a RequestException (the service is
\* unavailable); nodata: the answer holds no "properties"/"parameter";
\* malformed: the answer makes the parsing raise another exception.
SoilAnswers == {"ok", "neterr"}
WeatherAnswers == {"ok", "neterr", "nodata", "malformed"}

\* _query_soil_at_point: the placeholder record, or None on RequestException.
\* (<<>> stands for None, <<d>> for the dict d.)
QuerySoil(a) == IF a = "ok" THEN <<[mukey |-> NA]>> ELSE <<>>

\* lines 126-139: if soil_data: soil_data["field_id"] = field_id; append
RECURSIVE SoilResults(_, _, _)
SoilResults(fields, ans, i) ==
    IF i > Len(fields.rows) THEN <<>>
    ELSE LET soil_data == QuerySoil(ans[i])
         IN (IF soil_data # <<>>
             THEN <<[mukey |-> soil_data[1].mukey,
                     field_id |-> fields.rows[i]["field_id"]]>>
             ELSE <<>>) \o SoilResults(fields, ans, i + 1)

\* SSURGOSoilSkill.download_for_fields, lines 121-147: pd.DataFrame(results)
\* of an empty list has no columns.
SoilDownload(fields, ans) ==
    LET results == SoilResults(fields, ans, 1)
    IN Table(IF results = <<>> THEN <<>> ELSE <<"mukey", "field_id">>, results)

\* to_csv of a frame: an empty frame gives a file of one line break.
CsvKind(df) == IF df.cols = <<>> THEN "small" ELSE "table"

\* _query_weather, lines 187-220: one daily record, or None.
WeatherRecord(k) ==
    [T2M |-> Num(20), PRECTOTCORR |-> Num(5), date |-> Str("2023-01-01"), field_id |-> k]

RECURSIVE AllWeather(_, _, _)
AllWeather(fields, ans, i) ==
    IF i > Len(fields.rows) THEN <<>>
    ELSE (IF ans[i] = "ok" THEN <<WeatherRecord(fields.rows[i]["field_id"])>> ELSE <<>>)
            \o AllWeather(fields, ans, i + 1)

\* The first field whose answer makes _query_weather raise, 0 if none.
FirstRaise(ans) ==
    IF \E i \in DOMAIN ans : ans[i] = "malformed"
    THEN CHOOSE i \in DOMAIN ans :
            ans[i] = "malformed" /\ \A j \in 1 .. (i - 1) : ans[j] # "malformed"
    ELSE 0

\* Faulty variant: lines 146-147 left out, as in the soil adapter.
WeatherDownloadNoRaise(fields, ans) ==
    LET all == AllWeather(fields, ans, 1)
    IN IF FirstRaise(ans) # 0 THEN [exc |-> "ParseError", df |-> NoTable]
       ELSE [exc |-> "none",
             df |-> Table(IF all = <<>> THEN <<>>
                          ELSE <<"T2M", "PRECTOTCORR", "date", "field_id">>, all)]

\* NASAPowerWeatherSkill.download_for_fields, lines 124-155: the exception it
\* raises ("none" if it returns) and the frame it returns and saves.
WeatherDownload(fields, ans) ==
    LET all == AllWeather(fields, ans, 1)
    IN IF FirstRaise(ans) # 0 THEN [exc |-> "ParseError", df |-> NoTable]
       ELSE IF all = <<>> THEN [exc |-> "RuntimeError", df |-> NoTable]
       ELSE [exc |-> "none",
             df |-> Table(<<"T2M", "PRECTOTCORR", "date", "field_id">>, all)]

FetchYears == <<2020, 2021, 2022, 2023>>

\* CDLCroplandSkill.download_for_fields, lines 187-214: a record per year and
\* field, from the placeholder _extract_cdl_for_field.
CropDownload(fields, years) ==
    LET n == Len(fields.rows)
    IN Table(IF n = 0 THEN <<>> ELSE <<"field_id", "year", "crop_code", "crop_name">>,
             [k \in 1 .. (Len(years) * n) |->
                [field_id |-> fields.rows[((k - 1) % n) + 1]["field_id"],
                 year |-> Num(years[((k - 1) \div n) + 1]),
                 crop_code |-> Num(1),
                 crop_name |-> Str("Corn")]])

\* fetch_assignment2_data.main, lines 8-9
FetchSoil ==
    /\ prog = "fetch" /\ pc = "soil"
    /\ soil_df' = SoilDownload(base, svc.soil)
    /\ Found("soil", CsvKind(soil_df'))
    /\ log' = Append(log, <<"fetching_soil">>)
    /\ pc' = "weather"
    /\ UNCHANGED <<prog, svc, base, gdf, weather_df, crop_df, exc, out>>
    /\ UNCHANGED stdvars

\* lines 12-18: an exception of download_for_fields ends main.
FetchWeather ==
    /\ prog = "fetch" /\ pc = "weather"
    /\ LET r == WeatherDownload(base, svc.weather)
       IN /\ weather_df' = r.df
          /\ exc' = r.exc
          /\ IF r.exc = "none"
             THEN Found("weather", "table") /\ pc' = "crop"
             ELSE fs' = fs /\ pc' = "crashed"
    /\ log' = Append(log, <<"fetching_weather">>)
    /\ UNCHANGED <<prog, svc, base, gdf, soil_df, crop_df, out>>
    /\ UNCHANGED stdvars

\* lines 21-26
FetchCrop ==
    /\ prog = "fetch" /\ pc = "crop"
    /\ crop_df' = CropDownload(base, FetchYears)
    /\ Found("crop", CsvKind(crop_df'))
    /\ log' = Append(log, <<"fetching_crop">>)
    /\ pc' = "done"
    /\ UNCHANGED <<prog, svc, base, gdf, soil_df, weather_df, exc, out>>
    /\ UNCHANGED stdvars

-----------------------------------------------------------------------------
(* agri_toolkit/boundaries/client.py: BoundaryClient *)

\* A GeoDataFrame: a table with a coordinate reference ("none" if not set).
\* A geometry cell is <<"geom", shape, frame>>, frame being the reference
\* system its coordinates are expressed in.
GeoTable(cols, rows, crs) == [cols |-> cols, rows |-> rows, crs |-> crs]
IsGeoTable(t) == DOMAIN t = {"cols", "rows", "crs"}
Geom(i, frame) == <<"geom", i, frame>>
WGS84 == "EPSG:4326"
CrsValues == {WGS84, "EPSG:3857", "none"}

\* required_columns, lines 70-79
SchemaCols ==
    <<"field_id", "crop_2023", "acres", "yield_2023", "owner", "planting_date",
      "soil_type", "geometry">>
SchemaType(c) ==
    CASE c = "acres" -> "float64"
      [] c = "yield_2023" -> "int64"
      [] c = "geometry" -> "geometry"
      [] OTHER -> "object"

\* The dtype pandas gives a column holding these cells.
CellType(v) ==
    CASE v[1] = "n" -> "int64"
      [] v[1] = "f" -> "float64"
      [] v[1] = "geom" -> "geometry"
      [] OTHER -> "object"
ColType(t, c) ==
    LET kinds == {CellType(t.rows[i][c]) : i \in DOMAIN t.rows}
    IN IF c = "geometry" THEN "geometry"
       ELSE IF Cardinality(kinds) = 1 THEN CHOOSE k \in kinds : TRUE
       ELSE "object"

\* f"{i:0{w}d}": zeros in front up to the width w, never a digit cut off.
RECURSIVE ZeroPad(_, _)
ZeroPad(str, w) == IF Len(str) >= w THEN str ELSE ZeroPad("0" \o str, w)
PadWidth == 4
\* Faulty variant: the number is cut to its last four digits.
FieldIdOfWrapped(i) == "FLD_" \o ZeroPad(ToString(i % (10 ^ PadWidth)), PadWidth)
\* line 47: f"FLD_{i:04d}"
FieldIdOf(i) == "FLD_" \o ZeroPad(ToString(i), PadWidth)

\* lines 82-84: for col in required_columns: if col not in gdf.columns:
\*     gdf[col] = None      (on the caller's object)
StdAddMissing(t) ==
    LET missing == SelectSeq(SchemaCols, LAMBDA c : ~HasCol(t, c))
        none == [c \in SeqRange(missing) |-> NA]
    IN GeoTable(t.cols \o missing, [i \in DOMAIN t.rows |-> t.rows[i] @@ none], t.crs)

\* line 87: gdf = gdf[list(required_columns.keys())]
SchemaColSet == SeqRange(SchemaCols)
Restrict(r, S) == [c \in S |-> r[c]]
StdSelect(t) ==
    GeoTable(SchemaCols, [i \in DOMAIN t.rows |-> Restrict(t.rows[i], SchemaColSet)], t.crs)

\* to_crs of one geometry: the coordinates are transformed from the frame the
\* table declares to the target.
Reproject(g, from, to) ==
    IF IsNA(g) THEN g
    ELSE IF g[3] = from THEN Geom(g[2], to)
    ELSE Geom(g[2], "wrong")

\* Faulty variant: the coordinates are transformed, the table's crs is not set.
ToCrsKeepLabel(t, target) ==
    [t EXCEPT !.rows = [i \in DOMAIN t.rows |->
        [t.rows[i] EXCEPT !["geometry"] = Reproject(@, t.crs, target)]]]

\* gdf.to_crs(target), line 91
ToCrs(t, target) ==
    GeoTable(t.cols,
             [i \in DOMAIN t.rows |->
                [t.rows[i] EXCEPT !["geometry"] = Reproject(@, t.crs, target)]],
             target)

\* Faulty variant: line 90 tests gdf.crs only when it is set.
StandardizeSchemaCrsOptional(t) ==
    LET a == StdAddMissing(t)
        sel == StdSelect(a)
    IN IF sel.crs \in {WGS84, "none"} THEN [exc |-> "none", ret |-> sel, arg |-> a]
       ELSE [exc |-> "none", ret |-> ToCrs(sel, WGS84), arg |-> a]

\* Faulty variant: line 87 left out, the columns stay as they came.
StandardizeSchemaNoSelect(t) ==
    LET a == StdAddMissing(t)
    IN IF a.crs = WGS84 THEN [exc |-> "none", ret |-> a, arg |-> a]
       ELSE IF a.crs = "none" THEN [exc |-> "ValueError", ret |-> NoTable, arg |-> a]
       ELSE [exc |-> "none", ret |-> ToCrs(a, WGS84), arg |-> a]

\* standardize_schema, lines 68-93: the exception raised ("none" if it
\* returns), the table returned, and the caller's table after the call.
\* to_crs raises ValueError on a table that has no crs.
StandardizeSchema(t) ==
    LET a == StdAddMissing(t)
        sel == StdSelect(a)
    IN IF sel.crs = WGS84 THEN [exc |-> "none", ret |-> sel, arg |-> a]
       ELSE IF sel.crs = "none" THEN [exc |-> "ValueError", ret |-> NoTable, arg |-> a]
       ELSE [exc |-> "none", ret |-> ToCrs(sel, WGS84), arg |-> a]

\* The tables a caller passes: some schema columns, or all, in schema order or
\* another, with or without a column outside the schema; values of the schema
\* type or another.
MaxStdRows == 1
StdOptional == {"field_id", "acres", "yield_2023", "notes"}
StdRest == {"crop_2023", "owner", "planting_date", "soil_type"}
StdOrders ==
    {SchemaCols \o <<"notes">>,
     <<"notes", "geometry", "yield_2023", "field_id", "acres", "soil_type",
       "planting_date", "owner", "crop_2023">>}
StdRow(k, v, crs) ==
    [field_id |-> Str(FieldIdOf(k - 1)), crop_2023 |-> Str("Corn"), acres |-> v[1],
     yield_2023 |-> v[2], owner |-> Str("Farmer_000"),
     planting_date |-> Str("2023-05-01"), soil_type |-> Str("Loam"),
     geometry |-> Geom(k, crs), notes |-> Str("x")]
StdValues == {Mean(81, 2), Str("forty")} \X {Num(180), NA}
StdInput(order, S, vals, crs) ==
    LET cols == SelectSeq(order, LAMBDA c : c \in S)
    IN GeoTable(cols,
                [k \in DOMAIN vals |-> [c \in S |-> StdRow(k, vals[k], crs)[c]]],
                crs)
StdInputs ==
    {StdInput(order, {"geometry"} \cup A \cup B, vals, crs) :
        order \in StdOrders, A \in SUBSET StdOptional, B \in {{}, StdRest},
        vals \in SeqsUpTo(StdValues, MaxStdRows), crs \in CrsValues}

\* A caller calls standardize_schema on its table.
StdCall ==
    /\ prog = "standardize" /\ pc = "call"
    /\ LET r == StandardizeSchema(arg)
       IN /\ arg0' = arg
          /\ arg' = r.arg
          /\ ret' = r.ret
          /\ exc' = r.exc
          /\ pc' = IF r.exc = "none" THEN "returned" ELSE "raised"
    /\ ret1' = ret
    /\ UNCHANGED <<prog, fs, svc, base, gdf, soil_df, weather_df, crop_df, log, out>>

\* The caller calls standardize_schema on the table the first call returned.
StdCallAgain ==
    /\ prog = "standardize" /\ pc = "returned"
    /\ LET r == StandardizeSchema(ret)
       IN /\ arg0' = arg0
          /\ arg' = r.arg
          /\ ret' = r.ret
          /\ exc' = r.exc
          /\ pc' = IF r.exc = "none" THEN "returned2" ELSE "raised2"
    /\ ret1' = ret
    /\ UNCHANGED <<prog, fs, svc, base, gdf, soil_df, weather_df, crop_df, log, out>>

\* fetch_boundaries(limit): the limits tried, one of them beyond the numbers
\* that fit the padding of the field_id; the state of numpy's random
\* generator when the call starts.
MaxLimit == 2
MaxSeed == 1
Limits == (1 .. MaxLimit) \cup {10 ^ PadWidth + 1}
Seeds == 0 .. MaxSeed

Crops == <<"Corn", "Soybeans", "Wheat", "Alfalfa", "Oats">>
SoilTypes == <<"Loam", "Sandy Loam", "Silt Clay">>
\* The k-th draw of the generator, among n values.
Draw(seed, k, n) == (seed + k) % n

\* lines 30-57: the mock fields, gpd.GeoDataFrame(fields, crs="EPSG:4326")
MockFields(limit, seed) ==
    GeoTable(<<"field_id", "geometry", "crop_2023", "acres", "yield_2023", "owner",
               "planting_date", "soil_type">>,
             [k \in 1 .. limit |->
                LET i == k - 1
                IN [field_id |-> Str(FieldIdOf(i)),
                    geometry |-> Geom(i, WGS84),
                    crop_2023 |-> Str(Crops[Draw(seed, i, Len(Crops)) + 1]),
                    acres |-> Mean(3800 + Draw(seed, i, 400), 100),
                    yield_2023 |-> Num(160 + Draw(seed, i, 40)),
                    owner |-> Str("Farmer_" \o ZeroPad(ToString(i % 50), 3)),
                    planting_date |->
                        Str("2023-05-" \o ZeroPad(ToString(1 + Draw(seed, i, 29)), 2)),
                    soil_type |-> Str(SoilTypes[Draw(seed, i, Len(SoilTypes)) + 1])]],
             WGS84)

\* gdf.to_file(output_file, driver="GeoJSON"): a feature per row, its
\* properties the other columns, then its geometry.
WriteGeoJson(t) ==
    GeoTable(SeqFilterOut(t.cols, "geometry") \o <<"geometry">>, t.rows, t.crs)

\* fetch_boundaries, lines 17-66
BoundariesFetch ==
    /\ prog = "boundaries" /\ pc = "fetch"
    /\ \E limit \in Limits, seed \in Seeds :
         LET r == StandardizeSchema(MockFields(limit, seed))
         IN /\ log' = Append(log, <<"requesting", limit>>)
            /\ arg0' = MockFields(limit, seed)
            /\ arg' = r.arg
            /\ ret' = r.ret
            /\ exc' = r.exc
            /\ IF r.exc = "none"
               THEN out' = WriteGeoJson(r.ret) /\ pc' = "done"
               ELSE out' = out /\ pc' = "crashed"
    /\ UNCHANGED <<prog, fs, svc, base, gdf, soil_df, weather_df, crop_df, ret1>>

-----------------------------------------------------------------------------
(* skills/cdl-cropland/scripts/cdl_cropland.py: CDLCroplandSkill.analyze_rotation *)

RemoveAt(s, i) == SubSeq(s, 1, i - 1) \o SubSeq(s, i + 1, Len(s))

FieldYearLess(a, b) ==
    \/ a["field_id"][2] < b["field_id"][2]
    \/ a["field_id"] = b["field_id"] /\ a["year"][2] < b["year"][2]

\* line 249: cdl_data.sort_values(["field_id", "year"]), a new frame; records
\* with equal keys keep their order (a sort by several columns is stable).
RECURSIVE SortByFieldYear(_)
SortByFieldYear(rows) ==
    IF rows = <<>> THEN <<>>
    ELSE LET i == CHOOSE k \in DOMAIN rows :
                     /\ \A j \in DOMAIN rows : ~FieldYearLess(rows[j], rows[k])
                     /\ \A j \in 1 .. (k - 1) : FieldYearLess(rows[k], rows[j])
         IN <<rows[i]>> \o SortByFieldYear(RemoveAt(rows, i))

\* lines 252-253: prev_crop is the crop_code of the record before, within the
\* field, and missing (NaN) for the first record of a field; crop_code !=
\* NaN is True.
Changed(g, j) == IF j = 1 THEN TRUE ELSE g[j]["crop_code"] # g[j - 1]["crop_code"]

\* lines 256-260: the aggregation of one field's records g: the sum of
\* changed, the list of crop_code, the count of year.
RotationRow(k, g) ==
    [field_id |-> k,
     rotation_count |-> Num(Cardinality({j \in DOMAIN g : Changed(g, j)})),
     crop_sequence |-> <<"list", [j \in DOMAIN g |-> g[j]["crop_code"][2]]>>,
     year_count |-> Num(Len(g))]

\* lines 249-271
AnalyzeRotation(t) ==
    LET df == Table(t.cols, SortByFieldYear(t.rows))
        keys == SortedIds(Keys(df))
    IN Table(<<"field_id", "rotation_count", "crop_sequence", "year_count">>,
             [i \in DOMAIN keys |-> RotationRow(keys[i], GroupRows(df, keys[i]))])

MaxCdlRows == 3       \* records of the table given to analyze_rotation
CdlYears == {2021, 2022, 2023}
CdlCodes == {1, 5}    \* corn, soybeans
CdlRow(r) == [field_id |-> Id(r[1]), year |-> Num(r[2]), crop_code |-> Num(r[3])]
CdlInputs ==
    {Table(<<"field_id", "year", "crop_code">>, [k \in DOMAIN r |-> CdlRow(r[k])]) :
        r \in SeqsUpTo((1 .. MaxBase) \X CdlYears \X CdlCodes, MaxCdlRows) \ {<<>>}}

\* One call of analyze_rotation; the frame passed is only read.
RotationCall ==
    /\ prog = "rotation" /\ pc = "call"
    /\ ret' = AnalyzeRotation(arg)
    /\ arg0' = arg
    /\ arg' = arg
    /\ pc' = "returned"
    /\ UNCHANGED <<prog, fs, svc, base, gdf, soil_df, weather_df, crop_df, log, exc, out,
                   ret1>>

-----------------------------------------------------------------------------
(* skills/nasa-power-weather/scripts/nasa_power_weather.py:                  *)
(* calculate_accumulated_precipitation                                       *)

\* The positions, up to i, of the records of the field of record i.
GroupUpTo(t, i) == {j \in 1 .. i : t.rows[j]["field_id"] = t.rows[i]["field_id"]}

\* The w greatest members of a set of positions (all of them when there are
\* fewer).
LastOf(S, w) == {j \in S : Cardinality({k \in S : k > j}) < w}

RECURSIVE SumAt(_, _, _)
SumAt(t, S, c) ==
    IF S = {} THEN 0
    ELSE LET j == CHOOSE k \in S : TRUE
         IN (IF IsNA(t.rows[j][c]) THEN 0 ELSE t.rows[j][c][2]) + SumAt(t, S \ {j}, c)

\* lines 279-283: groupby("field_id")["PRECTOTCORR"].rolling(window=w,
\* min_periods=1).sum(): an integer window counts records, so the value of a
\* record is the sum over the record and the w - 1 records before it in the
\* field's row order; reset_index(0, drop=True) leaves the index of the
\* frame, on which the assignment aligns the values with the records.
RollingSum(t, w, i) == SumAt(t, LastOf(GroupUpTo(t, i), w), "PRECTOTCORR")

\* lines 275-285, on a frame that has the column
AccumulatedPrecipitation(t, w) ==
    Table(t.cols \o <<"precip_accum">>,
          [i \in DOMAIN t.rows |->
             t.rows[i] @@ [c \in {"precip_accum"} |-> Num(RollingSum(t, w, i))]])

MaxPrecipRows == 3    \* records of the table given
MaxDay == 3           \* dates are the days 1 .. MaxDay
MaxWindow == 2        \* window_days is in 1 .. MaxWindow
PrecipValues == {1, 2}
PrecipRow(r) == [field_id |-> Id(r[1]), date |-> Num(r[2]), PRECTOTCORR |-> Num(r[3])]
\* A frame without the column.
NoPrecipTable ==
    Table(<<"field_id", "date">>, <<[field_id |-> Id(1), date |-> Num(1)]>>)
\* At most one record per field and day, as the service delivers them.
OnePerDay(r) == \A i, j \in DOMAIN r : (r[i][1] = r[j][1] /\ r[i][2] = r[j][2]) => i = j
PrecipInputs ==
    {Table(<<"field_id", "date", "PRECTOTCORR">>, [k \in DOMAIN r |-> PrecipRow(r[k])]) :
        r \in {q \in SeqsUpTo((1 .. MaxBase) \X (1 .. MaxDay) \X PrecipValues,
                              MaxPrecipRows) \ {<<>>} : OnePerDay(q)}}
        \cup {NoPrecipTable}

\* One call of calculate_accumulated_precipitation(weather, window_days):
\* lines 275-276 raise on a frame without PRECTOTCORR; the frame passed is
\* copied (line 278) and only the copy is written.
PrecipCall ==
    /\ prog = "precip" /\ pc = "call"
    /\ \E w \in 1 .. MaxWindow :
         /\ log' = <<<<"window_days", w>>>>
         /\ IF HasCol(arg, "PRECTOTCORR")
            THEN ret' = AccumulatedPrecipitation(arg, w) /\ exc' = exc /\ pc' = "returned"
            ELSE ret' = ret /\ exc' = "ValueError" /\ pc' = "raised"
    /\ arg0' = arg
    /\ arg' = arg
    /\ UNCHANGED <<prog, fs, svc, base, gdf, soil_df, weather_df, crop_df, out, ret1>>

-----------------------------------------------------------------------------
(* skills/nasa-power-weather/scripts/nasa_power_weather.py:                  *)
(* calculate_growing_degree_days                                             *)

\* Temperatures are whole degrees; a mean of two and what is computed from
\* it is held in half degrees, as the cell Mean(h, 2).
\* lines 244-250 for one record, in half degrees: t_avg = (T2M_MIN +
\* T2M_MAX) / 2, clip(upper=max_temp), minus base_temp, clip(lower=0).
GddHalves(r, base_temp, max_temp) ==
    LET t_avg == r["T2M_MIN"][2] + r["T2M_MAX"][2]
        capped == IF t_avg > 2 * max_temp THEN 2 * max_temp ELSE t_avg
        g == capped - 2 * base_temp
    IN IF g < 0 THEN 0 ELSE g

RECURSIVE SumGdd(_, _, _, _)
SumGdd(t, S, base_temp, max_temp) ==
    IF S = {} THEN 0
    ELSE LET j == CHOOSE k \in S : TRUE
         IN GddHalves(t.rows[j], base_temp, max_temp)
                + SumGdd(t, S \ {j}, base_temp, max_temp)

\* Faulty variant: the running sum is taken over the whole frame.
GddCumulativeUngrouped(t, i, base_temp, max_temp) ==
    SumGdd(t, 1 .. i, base_temp, max_temp)

\* line 253: df.groupby("field_id")["gdd"].cumsum(), at record i
GddCumulative(t, i, base_temp, max_temp) ==
    SumGdd(t, GroupUpTo(t, i), base_temp, max_temp)

\* lines 241-255, on a frame that has the two columns
GrowingDegreeDays(t, base_temp, max_temp) ==
    Table(t.cols \o <<"gdd", "gdd_cumulative">>,
          [i \in DOMAIN t.rows |->
             t.rows[i] @@
             [c \in {"gdd", "gdd_cumulative"} |->
                IF c = "gdd" THEN Mean(GddHalves(t.rows[i], base_temp, max_temp), 2)
                ELSE Mean(GddCumulative(t, i, base_temp, max_temp), 2)]])

MaxGddRows == 3       \* records of the table given
MinTemps == {1, 12}
MaxTemps == {14, 52}
\* base_temp and max_temp: the defaults, and a cap below the base
GddParams == {<<10, 30>>, <<10, 8>>}
GddRow(r) == [field_id |-> Id(r[1]), T2M_MIN |-> Num(r[2]), T2M_MAX |-> Num(r[3])]
\* A frame without T2M_MAX.
NoTempTable ==
    Table(<<"field_id", "T2M_MIN">>, <<[field_id |-> Id(1), T2M_MIN |-> Num(1)]>>)
GddInputs ==
    {Table(<<"field_id", "T2M_MIN", "T2M_MAX">>, [k \in DOMAIN r |-> GddRow(r[k])]) :
        r \in SeqsUpTo((1 .. MaxBase) \X MinTemps \X MaxTemps, MaxGddRows) \ {<<>>}}
        \cup {NoTempTable}

\* One call of calculate_growing_degree_days(weather, base_temp, max_temp):
\* lines 238-239 raise on a frame without the two columns; the frame passed
\* is copied (line 241) and only the copy is written.
GddCall ==
    /\ prog = "gdd" /\ pc = "call"
    /\ \E p \in GddParams :
         /\ log' = <<<<"base_temp", p[1]>>, <<"max_temp", p[2]>>>>
         /\ IF HasCol(arg, "T2M_MIN") /\ HasCol(arg, "T2M_MAX")
            THEN /\ ret' = GrowingDegreeDays(arg, p[1], p[2])
                 /\ exc' = exc /\ pc' = "returned"
            ELSE ret' = ret /\ exc' = "ValueError" /\ pc' = "raised"
    /\ arg0' = arg
    /\ arg' = arg
    /\ UNCHANGED <<prog, fs, svc, base, gdf, soil_df, weather_df, crop_df, out, ret1>>

-----------------------------------------------------------------------------
(* skills/field-boundaries/scripts/_downloader.py: FieldBoundaryDownloader   *)

\* lines 41-52: the first state of each region, the first code of each crop
REGION_STATE_FIPS ==
    [r \in {"corn_belt", "great_plains", "southeast"} |->
        CASE r = "corn_belt" -> "17" [] r = "great_plains" -> "20" [] OTHER -> "05"]
CROP_TYPES ==
    [c \in {"corn", "soybeans", "wheat", "cotton"} |->
        CASE c = "corn" -> "1" [] c = "soybeans" -> "5" [] c = "wheat" -> "23"
          [] OTHER -> "2"]

\* A file path: the directory and the parts of the file name.
FilePath(dir, name) == <<dir, name>>
NoFile == <<>>

\* What one call does besides returning or raising: the queries sent (their
\* LIMIT) and the files written (their paths).
Outcome(e, t, queries, files) == [exc |-> e, ret |-> t, queries |-> queries, files |-> files]

\* Faulty variant: the crops are not checked.
ArgErrorNoCropCheck(count, regions, crops) ==
    IF count < 1 THEN "ValueError"
    ELSE IF \E i \in DOMAIN regions : regions[i] \notin DOMAIN REGION_STATE_FIPS
    THEN "ValueError"
    ELSE "none"

\* lines 97-114: what the checks of the arguments raise. regions and crops
\* are as after lines 100-101.
ArgError(count, regions, crops) ==
    IF count < 1 THEN "ValueError"
    ELSE IF \E i \in DOMAIN regions : regions[i] \notin DOMAIN REGION_STATE_FIPS
    THEN "ValueError"
    ELSE IF \E i \in DOMAIN crops : crops[i] \notin DOMAIN CROP_TYPES
    THEN "ValueError"
    ELSE "none"

\* line 145
RequestCount(count) == IF count * 2 >= count + 10 THEN count * 2 ELSE count + 10

\* lines 147-163: the store answers with at most LIMIT of the fields that
\* match the filter; a field of the store is given by its area in square
\* metres (EPSG:5070).
Answer(store, limit) == SubSeq(store, 1, IF Len(store) < limit THEN Len(store) ELSE limit)

FieldCols ==
    <<"field_id", "region", "state_fips", "area_acres", "crop_code", "crop_name",
      "crop_code_list", "geometry">>

\* lines 180-184, 198: one row of the answer; area_acres is the area in
\* EPSG:5070 divided by 4046.86, the geometry is reprojected to EPSG:4326 and
\* the region is that of the state.
FieldRow(k, area, regions, crops) ==
    [field_id |-> Id(k),
     region |-> Str(regions[1]),
     state_fips |-> Str(REGION_STATE_FIPS[regions[1]]),
     area_acres |-> Mean(area * 100, 404686),
     crop_code |-> Str(CROP_TYPES[crops[1]]),
     crop_name |-> Str(crops[1]),
     crop_code_list |-> Str(CROP_TYPES[crops[1]]),
     geometry |-> Geom(k, WGS84)]

\* Faulty variant: the fields of no area are kept.
PositiveAreaAll(rows) == rows

\* line 187: gdf[gdf["area_acres"] > 0]
PositiveArea(rows) == SelectSeq(rows, LAMBDA r : r["area_acres"][2] > 0)

\* lines 190-191
FirstRows(rows, count) == IF Len(rows) > count THEN SubSeq(rows, 1, count) ELSE rows

\* _query_source_cooperative, lines 126-215: every exception raised inside,
\* the KeyError of an unknown region or crop (lines 137, 142) and the
\* RuntimeError of an empty answer (line 166) included, leaves as a
\* RuntimeError (line 215).
QuerySourceCooperative(count, regions, crops, service) ==
    IF \/ \E i \in DOMAIN regions : regions[i] \notin DOMAIN REGION_STATE_FIPS
       \/ \E i \in DOMAIN crops : crops[i] \notin DOMAIN CROP_TYPES
    THEN Outcome("RuntimeError", NoTable, <<>>, <<>>)
    ELSE IF service[1] = "down"
    THEN Outcome("RuntimeError", NoTable, <<RequestCount(count)>>, <<>>)
    ELSE LET result == Answer(service[2], RequestCount(count))
             rows == [k \in DOMAIN result |-> FieldRow(k, result[k], regions, crops)]
         IN IF Len(result) = 0
            THEN Outcome("RuntimeError", NoTable, <<RequestCount(count)>>, <<>>)
            ELSE Outcome("none",
                         GeoTable(FieldCols, FirstRows(PositiveArea(rows), count), WGS84),
                         <<RequestCount(count)>>, <<>>)

\* _validate, lines 217-228
Validate(data) ==
    /\ IsGeoTable(data) /\ Len(data.rows) # 0
    /\ \A c \in {"field_id", "region", "geometry"} : HasCol(data, c)
    /\ data.crs # "none"

\* _save_fields, lines 230-244: the path written, NoFile when the format is
\* not supported (ValueError, line 241).
SaveFields(data_root, output_format) ==
    CASE output_format = "geojson" ->
            FilePath(data_root \o "/raw/field_boundaries", <<"fields", ".", "geojson">>)
      [] output_format = "geoparquet" ->
            FilePath(data_root \o "/raw/field_boundaries", <<"fields", ".", "parquet">>)
      [] OTHER -> NoFile

\* download, lines 97-124
Download(data_root, count, regionsArg, cropsArg, output_format, service) ==
    LET regions == IF regionsArg = <<>> THEN <<"corn_belt">> ELSE regionsArg
        crops == IF cropsArg = <<>> THEN <<"corn", "soybeans">> ELSE cropsArg
    IN IF ArgError(count, regions, crops) # "none"
       THEN Outcome(ArgError(count, regions, crops), NoTable, <<>>, <<>>)
       ELSE LET q == QuerySourceCooperative(count, regions, crops, service)
                path == SaveFields(data_root, output_format)
            IN IF q.exc # "none" THEN q
               ELSE IF ~Validate(q.ret)
               THEN Outcome("RuntimeError", NoTable, q.queries, <<>>)
               ELSE IF path = NoFile
               THEN Outcome("ValueError", NoTable, q.queries, <<>>)
               ELSE Outcome("none", q.ret, q.queries, <<path>>)

MaxCount == 2         \* count is in 0 .. MaxCount
MaxStore == 3         \* fields of the store that match a filter
\* Areas in square metres: none, and ten acres.
StoreAreas == {0, 40469}
FieldServices == {<<"down">>} \cup {<<"up", a>> : a \in SeqsUpTo(StoreAreas, MaxStore)}
\* regions and crops: None or empty (<<>>), valid names, an unknown name.
RegionArgs == {<<>>, <<"southeast">>, <<"corn_belt", "mars">>}
CropArgs == {<<>>, <<"wheat">>, <<"rice">>}
Formats == {"geojson", "geoparquet", "shp"}

\* The call of one download as the log keeps it.
DownloadCalled(count, regions, crops, output_format) ==
    <<"download", count, regions, crops, output_format>>
Queried(limit) == <<"query", limit>>
Saved(path) == <<"saved", path>>

\* What the outcome of a call adds to the log.
Effects(o) ==
    [i \in DOMAIN o.queries |-> Queried(o.queries[i])]
        \o [i \in DOMAIN o.files |-> Saved(o.files[i])]

\* One call of FieldBoundaryDownloader().download(count, regions, crops,
\* output_format); out is the table in the file written.
DownloaderDownload ==
    /\ prog = "downloader" /\ pc = "call"
    /\ \E count \in 0 .. MaxCount, regions \in RegionArgs, crops \in CropArgs,
          output_format \in Formats :
         LET o == Download("data", count, regions, crops, output_format, svc)
         IN /\ log' = <<DownloadCalled(count, regions, crops, output_format)>> \o Effects(o)
            /\ ret' = o.ret
            /\ exc' = o.exc
            /\ out' = IF o.files # <<>> THEN o.ret ELSE out
            /\ pc' = IF o.exc = "none" THEN "returned" ELSE "raised"
    /\ UNCHANGED <<prog, fs, svc, base, gdf, soil_df, weather_df, crop_df, arg0, arg, ret1>>

-----------------------------------------------------------------------------
(* skills/field-boundaries/scripts/field_boundaries.py: Config and           *)
(* FieldBoundariesSkill                                                      *)

\* What is passed as config: nothing (None), a Config object of a data root,
\* a string (as scripts/a2_download_fields.py does).
ConfigNone == <<"None">>
ConfigObject(data_root) == <<"Config", data_root>>
ConfigStr(str) == <<"str", str>>
ConfigArgs == {ConfigNone, ConfigObject("data"), ConfigStr("data")}

\* line 63: self.config = config or Config()
SelfConfig(config) == IF config = ConfigNone THEN ConfigObject("data") ELSE config

\* line 64 and _downloader.py line 60: FieldBoundaryDownloader(config) takes
\* config as its data_root and Path(data_root) raises TypeError on anything
\* but a string or a path.
NewRaises(config) == IF config[1] = "str" THEN "none" ELSE "TypeError"

\* lines 36-38: raw_data_path is a property of Config; a string has none.
HasRawDataPath(config) == config[1] = "Config"
RawDataPath(config) == config[2] \o "/raw"

\* lines 242-243: crs.split(":")[-1], "4326" when the frame has no CRS.
EpsgCode(crs) ==
    CASE crs = "EPSG:3857" -> "3857"
      [] crs = "EPSG:5070" -> "5070"
      [] OTHER -> "4326"

\* export, lines 241-261. output_path is NoFile for None.
Export(config, fields, output_path, format) ==
    IF output_path = NoFile /\ ~HasRawDataPath(config)
    THEN Outcome("AttributeError", NoTable, <<>>, <<>>)
    ELSE LET path == IF output_path = NoFile
                     THEN FilePath(RawDataPath(config) \o "/field_boundaries",
                                   <<"fields_", "EPSG" \o EpsgCode(fields.crs), ".", format>>)
                     ELSE output_path
         IN IF format \in {"geojson", "geoparquet"}
            THEN Outcome("none", fields, <<>>, <<path>>)
            ELSE Outcome("ValueError", NoTable, <<>>, <<>>)

\* download, lines 104-115: the downloader saves the fields itself; they are
\* exported as well when an output_path is given.
SkillDownloadOutcome(config, count, regions, crops, output_path, service) ==
    LET d == Download(config[2], count, regions, crops, "geojson", service)
        e == Export(SelfConfig(config), d.ret, output_path, "geojson")
    IN IF d.exc # "none" \/ output_path = NoFile THEN d
       ELSE Outcome(e.exc, IF e.exc = "none" THEN d.ret ELSE NoTable,
                    d.queries, d.files \o e.files)

\* The paths given as output_path: None, a name with the CRS in it (as the
\* docstrings and a2_download_fields.py give), a name without.
OutputPaths ==
    {NoFile,
     FilePath("data/assignment-02", <<"fields_", "EPSG4326", ".", "geojson">>),
     FilePath("data", <<"fields", ".", "geojson">>)}

SkillDownloadCalled(count, output_path) == <<"skill_download", count, output_path>>
ExportCalled(output_path, format) == <<"export", output_path, format>>

\* skill = FieldBoundariesSkill(config), lines 57-64
SkillNew ==
    /\ prog = "skill" /\ pc = "new"
    /\ exc' = NewRaises(arg)
    /\ pc' = IF NewRaises(arg) = "none" THEN "ready" ELSE "failed"
    /\ UNCHANGED <<prog, fs, svc, base, gdf, soil_df, weather_df, crop_df, log, out>>
    /\ UNCHANGED stdvars

\* skill.download(count, output_path=...), lines 66-115
SkillDownload ==
    /\ prog = "skill" /\ pc = "ready"
    /\ \E count \in 0 .. MaxCount, output_path \in OutputPaths :
         LET o == SkillDownloadOutcome(arg, count, <<>>, <<>>, output_path, svc)
         IN /\ log' = <<SkillDownloadCalled(count, output_path)>> \o Effects(o)
            /\ ret' = o.ret
            /\ exc' = o.exc
            /\ out' = IF o.files # <<>> THEN o.ret ELSE out
            /\ pc' = IF o.exc = "none" THEN "downloaded" ELSE "raised"
    /\ UNCHANGED <<prog, fs, svc, base, gdf, soil_df, weather_df, crop_df, arg0, arg, ret1>>

\* skill.export(fields, output_path, format) on the fields downloaded,
\* lines 211-261
SkillExport ==
    /\ prog = "skill" /\ pc = "downloaded"
    /\ \E output_path \in OutputPaths, format \in Formats :
         LET o == Export(SelfConfig(arg), ret, output_path, format)
         IN /\ log' = log \o <<ExportCalled(output_path, format)>> \o Effects(o)
            /\ exc' = o.exc
            /\ out' = IF o.files # <<>> THEN o.ret ELSE out
            /\ pc' = IF o.exc = "none" THEN "exported" ELSE "raised"
    /\ UNCHANGED <<prog, fs, svc, base, gdf, soil_df, weather_df, crop_df>>
    /\ UNCHANGED stdvars

-----------------------------------------------------------------------------
(* scripts/a2_download_fields_alt.py: main *)

\* lines 6-14: the first rows of the file fetch_boundaries wrote, saved as the
\* field file of the assignment. The fields are numbered as in the attribute
\* tables (Id(k) for the k-th) and are drawn with the seed 0.
AltFieldsCopy(n) ==
    LET t == WriteGeoJson(StandardizeSchema(MockFields(n, 0)).ret)
    IN Table(t.cols,
             [k \in DOMAIN t.rows |->
                [t.rows[k] EXCEPT !["field_id"] = Id(k), !["geometry"] = <<"geom", k>>]])

\* The field files with the BoundaryClient schema.
SchemaBaseTables == {AltFieldsCopy(n) : n \in 1 .. MaxBase}

-----------------------------------------------------------------------------
(* skills/examples/02_chained_download_example.py *)

\* The script does not compile: the imports of lines 23-25 are indented under
\* no block, and Python raises IndentationError before a line of it runs, so
\* main (lines 29-150) is never entered and no file is written.
ChainedMain ==
    /\ prog = "chained" /\ pc = "load"
    /\ exc' = "IndentationError"
    /\ pc' = "crashed"
    /\ UNCHANGED <<prog, fs, svc, base, gdf, soil_df, weather_df, crop_df, log, out>>
    /\ UNCHANGED stdvars

-----------------------------------------------------------------------------

Services(b) ==
    [soil : [DOMAIN b.rows -> SoilAnswers], weather : [DOMAIN b.rows -> WeatherAnswers]]

Init ==
    /\ prog \in {"dashboard", "merge", "fetch", "chained"}
    /\ base \in CASE prog = "dashboard" -> BaseTables \cup {NoTable}
                  [] prog = "chained" -> {NoTable}
                  [] prog = "merge" -> BaseTables \cup SchemaBaseTables
                  [] OTHER -> BaseTables
    /\ pc = IF prog = "fetch" THEN "soil" ELSE "load"
    /\ fs = Unseen
    /\ svc \in IF prog = "fetch" THEN Services(base) ELSE {<<>>}
    /\ gdf = NoTable
    /\ soil_df = NoTable
    /\ weather_df = NoTable
    /\ crop_df = NoTable
    /\ log = <<>>
    /\ exc = "none"
    /\ out = NoTable
    /\ arg0 = NoTable /\ arg = NoTable /\ ret = NoTable /\ ret1 = NoTable

Next ==
    \/ DashLoadFails
    \/ DashLoad
    \/ DashSoilSkip
    \/ DashSoilEmpty
    \/ DashSoilRead(SoilTables)
    \/ DashWeatherSkip
    \/ DashWeatherEmpty
    \/ DashWeatherRead(WeatherTables)
    \/ DashCropSkip
    \/ DashCropEmpty
    \/ DashCropRead(CropTables)
    \/ DashFill
    \/ DashSave
    \/ MergeNoCrops
    \/ MergeMain(CropTables)
    \/ MapLoad
    \/ MapSoilSkip
    \/ MapSoilEmpty
    \/ MapSoilRead(SoilTables)
    \/ MapSave
    \/ FetchSoil
    \/ FetchWeather
    \/ FetchCrop
    \/ ChainedMain

Spec == Init /\ [][Next]_vars

-----------------------------------------------------------------------------
(* The callers of BoundaryClient: standardize_schema on a table of the       *)
(* caller, once and again on what it returned, and fetch_boundaries.          *)

InitClient ==
    /\ prog \in {"standardize", "boundaries"}
    /\ pc = IF prog = "standardize" THEN "call" ELSE "fetch"
    /\ arg \in IF prog = "standardize" THEN StdInputs ELSE {NoTable}
    /\ arg0 = NoTable /\ ret = NoTable /\ ret1 = NoTable
    /\ fs = Unseen
    /\ svc = <<>>
    /\ base = NoTable
    /\ gdf = NoTable
    /\ soil_df = NoTable
    /\ weather_df = NoTable
    /\ crop_df = NoTable
    /\ log = <<>>
    /\ exc = "none"
    /\ out = NoTable

NextClient ==
    \/ StdCall
    \/ StdCallAgain
    \/ BoundariesFetch

SpecClient == InitClient /\ [][NextClient]_vars

-----------------------------------------------------------------------------
(* The callers of the field-boundaries skill: one download of a              *)
(* FieldBoundaryDownloader; a FieldBoundariesSkill made, then its download,  *)
(* then an export of what it returned.                                       *)

InitSkill ==
    /\ prog \in {"downloader", "skill"}
    /\ pc = IF prog = "skill" THEN "new" ELSE "call"
    /\ svc \in FieldServices
    /\ arg \in IF prog = "skill" THEN ConfigArgs ELSE {NoTable}
    /\ arg0 = NoTable /\ ret = NoTable /\ ret1 = NoTable
    /\ fs = Unseen
    /\ base = NoTable
    /\ gdf = NoTable
    /\ soil_df = NoTable
    /\ weather_df = NoTable
    /\ crop_df = NoTable
    /\ log = <<>>
    /\ exc = "none"
    /\ out = NoTable

NextSkill ==
    \/ DownloaderDownload
    \/ SkillNew
    \/ SkillDownload
    \/ SkillExport

SpecSkill == InitSkill /\ [][NextSkill]_vars

-----------------------------------------------------------------------------
(* The callers of the analysis functions of the skills: each is called once  *)
(* on a table of the caller.                                                  *)

InitAnalysis ==
    /\ prog \in {"rotation", "precip", "gdd"}
    /\ pc = "call"
    /\ arg \in CASE prog = "rotation" -> CdlInputs
                 [] prog = "precip" -> PrecipInputs
                 [] prog = "gdd" -> GddInputs
    /\ arg0 = NoTable /\ ret = NoTable /\ ret1 = NoTable
    /\ fs = Unseen
    /\ svc = <<>>
    /\ base = NoTable
    /\ gdf = NoTable
    /\ soil_df = NoTable
    /\ weather_df = NoTable
    /\ crop_df = NoTable
    /\ log = <<>>
    /\ exc = "none"
    /\ out = NoTable

NextAnalysis ==
    \/ RotationCall
    \/ PrecipCall
    \/ GddCall

SpecAnalysis == InitAnalysis /\ [][NextAnalysis]_vars

-----------------------------------------------------------------------------
(* The scenario of the join's description: base fields [F1, F2, F3], soil    *)
(* records for [F1, F3], weather records for [F1, F2, F4]; the soil values   *)
(* and the crop file are free.                                               *)

ScenarioBase == Table(<<"field_id", "geometry">>, [k \in 1 .. 3 |-> BaseRow(k)])
ScenarioSoilTables ==
    {SoilTable(<<<<1, a>>, <<3, b>>>>) : a, b \in {NA, Str("Loam")}}
ScenarioWeatherTables == {WeatherTable(<<1, 2, 4>>)}

InitScenario ==
    /\ prog \in {"dashboard", "merge"}
    /\ base = ScenarioBase
    /\ pc = "load"
    /\ fs = Unseen
    /\ svc = <<>>
    /\ gdf = NoTable
    /\ soil_df = NoTable
    /\ weather_df = NoTable
    /\ crop_df = NoTable
    /\ log = <<>>
    /\ exc = "none"
    /\ out = NoTable
    /\ arg0 = NoTable /\ arg = NoTable /\ ret = NoTable /\ ret1 = NoTable

NextScenario ==
    \/ DashLoad
    \/ DashSoilRead(ScenarioSoilTables)
    \/ DashWeatherRead(ScenarioWeatherTables)
    \/ DashCropSkip
    \/ DashCropEmpty
    \/ DashCropRead(CropTables)
    \/ DashFill
    \/ DashSave
    \/ MergeNoCrops
    \/ MergeMain(CropTables)

SpecScenario == InitScenario /\ [][NextScenario]_vars

-----------------------------------------------------------------------------
(* Properties *)

HasDuplicateIds(t) ==
    \E i, j \in DOMAIN t.rows : i < j /\ t.rows[i]["field_id"] = t.rows[j]["field_id"]

SoilGroup == {"Soil_dominant_soil", "Soil_om_pct"}
WeatherGroup == {"Avg_Temp_C", "Total_Precip_mm"}
CropGroup == {"Crop_year", "Crop_crop_name"}
HasGroup(t, G) == G \subseteq SeqRange(t.cols)
NoGroup(t, G) == G \cap SeqRange(t.cols) = {}

NonGeometry(t) == SeqRange(t.cols) \ {"geometry"}

\* C1: the table create_dashboard builds by its left merges has, after each
\* merge and when it is saved, exactly as many rows as the base field table,
\* whatever the rows of the soil, weather and crop CSV files.
C1_RowCountIsBaseCount ==
    prog = "dashboard" =>
        /\ (pc # "load" => Len(gdf.rows) = Len(base.rows))
        /\ (IsTable(out) => Len(out.rows) = Len(base.rows))

\* The three sources are merged, the crop CSV holding two records of one base
\* field, onto a base table of two fields.
C1_Witness ==
    /\ prog = "dashboard" /\ pc = "fill"
    /\ HasGroup(gdf, SoilGroup) /\ HasGroup(gdf, WeatherGroup) /\ HasGroup(gdf, CropGroup)
    /\ Len(crop_df.rows) = 2 /\ Keys(crop_df) = {Id(1)}
    /\ Len(gdf.rows) = 2

\* C2: a base field table holding one field_id in two rows makes the join of
\* a2_merge_data.main and of create_dashboard fail before any output is
\* written.
C2_DuplicateFieldIdRejected ==
    (prog \in {"dashboard", "merge"} /\ HasDuplicateIds(base)) => out = NoTable

\* C3: every soil (crop) value create_dashboard attaches to a field is the
\* value, missing or not, of the first row of that field in the CSV.
C3_FirstRowWins ==
    /\ (prog = "dashboard" /\ pc = "weather" /\ HasGroup(gdf, SoilGroup)) =>
          \A i \in DOMAIN gdf.rows :
              LET g == GroupRows(soil_df, gdf.rows[i]["field_id"])
              IN g # <<>> =>
                    /\ gdf.rows[i]["Soil_dominant_soil"] = g[1]["dominant_soil"]
                    /\ gdf.rows[i]["Soil_om_pct"] = g[1]["om_pct"]
    /\ (prog = "dashboard" /\ pc = "fill" /\ IsTable(crop_df) /\ HasGroup(gdf, CropGroup)) =>
          \A i \in DOMAIN gdf.rows :
              LET g == GroupRows(crop_df, gdf.rows[i]["field_id"])
              IN g # <<>> =>
                    /\ gdf.rows[i]["Crop_year"] = g[1]["year"]
                    /\ gdf.rows[i]["Crop_crop_name"] = g[1]["crop_name"]

\* C4: in the tables a2_merge_data.main, create_dashboard and
\* a2_visualize_map.main join and write, the field_id of every row is a
\* field_id of the base field table.
C4_NoOrphanRows ==
    prog \in {"dashboard", "merge", "map"} =>
        /\ (IsTable(gdf) => Keys(gdf) \subseteq Keys(base))
        /\ (IsTable(out) => Keys(out) \subseteq Keys(base))

\* a2_visualize_map has merged a soil CSV that holds a record of an unknown
\* field.
C4_Witness ==
    /\ prog = "map" /\ pc = "map"
    /\ IsTable(soil_df) /\ HasCol(soil_df, "field_id")
    /\ Id(OrphanId) \in Keys(soil_df)
    /\ HasCol(gdf, "om_pct")

\* After a join, and while the source frame is at hand: the rows of fields
\* the source does not hold are missing in every column of the source.
UnmatchedAreMissing(df, G) ==
    \A i \in DOMAIN gdf.rows :
        gdf.rows[i]["field_id"] \notin Keys(df) => \A c \in G : IsNA(gdf.rows[i][c])

C5_AfterJoin ==
    prog = "dashboard" =>
        /\ (pc = "weather" /\ HasGroup(gdf, SoilGroup)) =>
               UnmatchedAreMissing(soil_df, SoilGroup)
        /\ (pc = "crop" /\ IsTable(weather_df) /\ HasGroup(gdf, WeatherGroup)) =>
               UnmatchedAreMissing(weather_df, WeatherGroup)
        /\ (pc = "fill" /\ IsTable(crop_df) /\ HasGroup(gdf, CropGroup)) =>
               UnmatchedAreMissing(crop_df, CropGroup)

C5_Filled ==
    (prog = "dashboard" /\ pc \in {"map", "done"}) =>
        /\ Len(gdf.rows) = Len(base.rows)
        /\ \A i \in DOMAIN gdf.rows : \A c \in NonGeometry(gdf) : ~IsNA(gdf.rows[i][c])

C5_FillStep ==
    (prog = "dashboard" /\ pc = "fill" /\ pc' = "map") =>
        /\ gdf'.cols = gdf.cols
        /\ FieldIds(gdf') = FieldIds(base)
        /\ \A i \in DOMAIN gdf.rows : \A c \in NonGeometry(gdf) :
               IsNA(gdf.rows[i][c]) => gdf'.rows[i][c] = Str("N/A")

\* C5: in the table create_dashboard hands to the map every base field row is
\* retained, every cell of a field that a joined source did not match (missing
\* after the join) holds 'N/A', and no non-geometry cell is a missing value.
C5_UnmatchedHoldPlaceholder ==
    [](C5_AfterJoin /\ C5_Filled) /\ [][C5_FillStep]_vars

\* A table ready for the map in which a soil column holds 'N/A' for one field
\* and a value for another.
C5_Witness ==
    /\ prog = "dashboard" /\ pc = "map"
    /\ HasGroup(gdf, SoilGroup)
    /\ \E i, j \in DOMAIN gdf.rows :
          /\ gdf.rows[i]["Soil_om_pct"] = Str("N/A")
          /\ gdf.rows[j]["Soil_om_pct"] # Str("N/A")

\* Whether create_dashboard merged the source: its file was there, longer than
\* 10 bytes, and read and summarised without a caught error.
Joined(s, err) == fs[s] = "table" /\ \A i \in DOMAIN log : log[i] # <<err>>

GroupIffJoined(t, s, err, G) == IF Joined(s, err) THEN HasGroup(t, G) ELSE NoGroup(t, G)

\* C6 as stated: the written table holds the column group of each of the three
\* sources, whether or not the source succeeded.
C6_EverySourceAddsItsGroup ==
    (prog = "dashboard" /\ pc = "done") =>
        HasGroup(out, SoilGroup) /\ HasGroup(out, WeatherGroup) /\ HasGroup(out, CropGroup)

\* C6 as amended: the table handed to the map holds the column group of a
\* source if and only if the source was merged; a source whose file is absent,
\* at most 10 bytes long, empty or unreadable adds no column.
C6_GroupIffJoined ==
    (prog = "dashboard" /\ pc \in {"map", "done"}) =>
        /\ GroupIffJoined(gdf, "soil", "soil_empty_skipped", SoilGroup)
        /\ GroupIffJoined(gdf, "weather", "weather_error", WeatherGroup)
        /\ GroupIffJoined(gdf, "crop", "crop_error", CropGroup)
        /\ (pc = "done" => out = gdf)

\* The dashboard is written without the soil file, with the weather file.
C6_Witness ==
    /\ prog = "dashboard" /\ pc = "done"
    /\ fs["soil"] = "absent" /\ NoGroup(out, SoilGroup)
    /\ fs["weather"] = "table" /\ HasGroup(out, WeatherGroup)

\* The rows of a filled table that hold a value of the source in column c.
MatchedRows(t, c) == Cardinality({i \in DOMAIN t.rows : t.rows[i][c] # Str("N/A")})

AllPlaceholder(r, G) == \A c \in G : r[c] = Str("N/A")

C8_FetchesIsolated ==
    (prog = "fetch" /\ pc \notin {"soil", "weather", "crop"}) =>
        /\ pc = "done"
        /\ fs["crop"] # "unseen"

\* C9: in create_dashboard an error raised while reading or summarising a
\* source is caught: once the base fields are loaded, the script ends with
\* the dashboard written.
C9_SourceErrorsCaught ==
    (prog = "dashboard" /\ IsTable(base) /\ pc \in {"done", "crashed"}) =>
        /\ exc = "none"
        /\ IsTable(out)

AllUnavailable(ans) == \A i \in DOMAIN ans : ans[i] = "neterr"
IsEmptyTable(t) == IsTable(t) /\ t.rows = <<>>

\* C10 as stated: with the service unavailable for every field, the soil and
\* the weather adapter alike return an empty table and raise nothing.
C10_EmptyTableInsteadOfRaising ==
    prog = "fetch" =>
        /\ (pc # "soil" /\ AllUnavailable(svc.soil)) => IsEmptyTable(soil_df)
        /\ (pc \notin {"soil", "weather"} /\ AllUnavailable(svc.weather)) =>
               exc = "none" /\ IsEmptyTable(weather_df)

\* C10 as amended: with the service unavailable for every field, the soil
\* adapter returns, and saves, an empty table of zero records; the weather
\* adapter raises RuntimeError and saves no file.
C10_SoilEmptyWeatherRaises ==
    prog = "fetch" =>
        /\ (pc # "soil" /\ AllUnavailable(svc.soil)) =>
               IsEmptyTable(soil_df) /\ fs["soil"] = "small"
        /\ (pc \notin {"soil", "weather"} /\ AllUnavailable(svc.weather)) =>
               /\ exc = "RuntimeError"
               /\ pc = "crashed"
               /\ weather_df = NoTable
               /\ fs["weather"] = "unseen"

\* Both services were unavailable for every field, and both adapters have run.
C10_Witness ==
    /\ prog = "fetch" /\ pc = "crashed"
    /\ AllUnavailable(svc.soil) /\ AllUnavailable(svc.weather)
    /\ Len(base.rows) = 2

\* The fields whose query the service answered with data.
OkFields(ans) == {base.rows[i]["field_id"] : i \in {j \in DOMAIN ans : ans[j] = "ok"}}

\* C11: in the soil and the weather adapter's download_for_fields a failure
\* for one field, whatever its cause, skips only that field: when some field
\* returned data, the result holds records for exactly the fields whose query
\* returned data.
C11_FailureSkipsOnlyThatField ==
    prog = "fetch" =>
        /\ pc # "soil" => Keys(soil_df) = OkFields(svc.soil)
        /\ (pc \notin {"soil", "weather"} /\ OkFields(svc.weather) # {}) =>
               /\ IsTable(weather_df)
               /\ Keys(weather_df) = OkFields(svc.weather)

\* The warning create_dashboard prints for a source (lines 31, 43, 53), and the
\* columns the source adds.
SkipMessage(s) ==
    CASE s = "soil" -> <<"soil_empty_skipped">>
      [] s = "weather" -> <<"weather_error">>
      [] s = "crop" -> <<"crop_error">>
GroupOf(s) ==
    CASE s = "soil" -> SoilGroup
      [] s = "weather" -> WeatherGroup
      [] s = "crop" -> CropGroup
Reported(s) == SkipMessage(s) \in SeqRange(log)

StdReturned == prog = "standardize" /\ pc \in {"returned", "returned2"}
StdGiven == IF pc = "returned" THEN arg0 ELSE ret1

C14_TypesEnforced ==
    (StdReturned /\ ret.rows # <<>>) =>
        \A c \in SeqRange(SchemaCols) : ColType(ret, c) = SchemaType(c)

\* C15: standardize_schema is idempotent: called on the table it returned for
\* a table with a defined CRS, it returns again, and returns a table equal to
\* the first in columns, column order, values and CRS.
C15_Idempotent ==
    prog = "standardize" =>
        /\ pc # "raised2"
        /\ pc = "returned2" => ret = ret1

\* The second call has returned; the caller's table was in another CRS, held a
\* column outside the schema and lacked acres.
C15_Witness ==
    /\ prog = "standardize" /\ pc = "returned2"
    /\ arg0.crs = "EPSG:3857" /\ HasCol(arg0, "notes") /\ ~HasCol(arg0, "acres")
    /\ Len(arg0.rows) = 1

\* C16: standardize_schema does not modify the table passed to it: after the
\* call, whether it returned or raised, the caller's table has the columns and
\* the values it had before.
C16_ArgumentUnchanged ==
    prog = "standardize" =>
        /\ pc \in {"returned", "raised"} => arg = arg0
        /\ pc \in {"returned2", "raised2"} => arg = ret1

\* C17: a table standardize_schema returns is in EPSG:4326: the geometries of
\* an input in EPSG:4326 are returned as they came, those of an input in
\* another CRS are reprojected to EPSG:4326, and an input without CRS makes
\* the call raise (ValueError, from to_crs) and return no table.
C17_ReturnedInWGS84 ==
    prog = "standardize" =>
        /\ StdReturned =>
              /\ ret.crs = WGS84
              /\ StdGiven.crs # "none"
              /\ \A i \in DOMAIN ret.rows :
                    ret.rows[i]["geometry"] =
                        IF StdGiven.crs = WGS84 THEN StdGiven.rows[i]["geometry"]
                        ELSE Geom(StdGiven.rows[i]["geometry"][2], WGS84)
        /\ (pc # "call" /\ arg0.crs = "none") =>
              pc = "raised" /\ exc = "ValueError" /\ ret = NoTable
        /\ pc = "raised" => arg0.crs = "none"

\* A table holding a row and no CRS was passed, and the call has raised.
C17_Witness ==
    /\ prog = "standardize" /\ pc = "raised"
    /\ arg0.crs = "none" /\ Len(arg0.rows) = 1 /\ HasCol(arg0, "field_id")

\* C18: fetch_boundaries(limit=n) returns exactly n field records with
\* pairwise distinct field_id, also for n beyond the four-digit padding, and
\* the standardization and the file written leave every field_id as it was
\* generated.
C18_DistinctFieldIds ==
    (prog = "boundaries" /\ pc # "fetch") =>
        LET n == log[1][2]
        IN /\ pc = "done"
           /\ Len(ret.rows) = n
           /\ Cardinality(Keys(ret)) = n
           /\ FieldIds(ret) = FieldIds(arg0)
           /\ FieldIds(out) = FieldIds(ret)
           /\ \A k \in DOMAIN ret.rows : ret.rows[k]["field_id"] = Str(FieldIdOf(k - 1))

\* More fields were requested than four digits can number.
C18_Witness ==
    /\ prog = "boundaries" /\ pc = "done"
    /\ Len(ret.rows) > 10 ^ PadWidth
    /\ Len(out.rows) = Len(ret.rows)

C19_WrittenLast ==
    prog \in {"dashboard", "chained"} =>
        /\ IsTable(out) =>
              /\ pc = "done"
              /\ IsTable(base)
              /\ \A s \in Sources : fs[s] # "unseen"
        /\ (~IsTable(base) /\ pc # "load") => (pc = "crashed" /\ out = NoTable)

C19_WrittenOnce ==
    (prog \in {"dashboard", "chained"} /\ out' # out) => (out = NoTable /\ pc' = "done")

\* C19: in every run of the chained example and of create_dashboard the
\* joined output is written only after each of the three sources has been
\* resolved (merged or passed over), it is written at most once, and it is not
\* written at all when the base field table cannot be loaded.
C19_OutputAfterAllSources ==
    []C19_WrittenLast /\ [][C19_WrittenOnce]_vars

\* The dashboard is written, one source merged and one passed over.
C19_Witness ==
    /\ prog = "dashboard" /\ pc = "done" /\ IsTable(out)
    /\ fs["soil"] = "table" /\ fs["weather"] = "absent" /\ fs["crop"] # "unseen"

\* C20: the left merge of the raw soil table onto the field table in
\* a2_visualize_map.main keeps one row per field: whatever the soil table,
\* one with several rows of one field_id included, the merged table has as
\* many rows as the field table.
C20_RawSoilMergeKeepsRowCount ==
    (prog = "map" /\ pc \in {"map", "done"}) => Len(gdf.rows) = Len(base.rows)

\* C21: in a2_visualize_map.main every property other than the geometry of
\* every field handed to the GeoJson layer is a string (a field_id is one)
\* and is not missing, the soil columns of fields without a soil record
\* included.
C21_MapPropertiesAreStrings ==
    (prog = "map" /\ pc \in {"map", "done"}) =>
        \A i \in DOMAIN gdf.rows :
            \A c \in NonGeometry(gdf) : gdf.rows[i][c][1] \in {"s", "id"}

\* The number of columns of t named c.
ColCount(t, c) == Cardinality({i \in DOMAIN t.cols : t.cols[i] = c})

\* C22: the file a2_merge_data.main writes holds every column of the base
\* field table under its own name and exactly one column crop_<year> for
\* each year of the crop table, also when the base table has the
\* BoundaryClient schema with its crop_2023 column.
C22_MergedKeepsColumnNames ==
    (prog = "merge" /\ pc = "done") =>
        /\ \A c \in SeqRange(base.cols) : HasCol(out, c)
        /\ \A y \in Years(crop_df) : ColCount(out, YearCol(y)) = 1

\* The records of field k in the table given, in ascending year order.
RecordsOf(t, k) == SelectSeq(SortByFieldYear(t.rows), LAMBDA r : r["field_id"] = k)

\* The number of consecutive pairs of g whose crop_code differs.
YearToYearChanges(g) ==
    Cardinality({j \in 2 .. Len(g) : g[j]["crop_code"] # g[j - 1]["crop_code"]})

\* C23: analyze_rotation returns one row per field_id; its rotation_count is
\* the number of consecutive-year pairs of the field whose crop_code differs
\* (0 for a field with one crop in every year), its year_count the number of
\* records of the field and its crop_sequence the crop codes in year order.
C23_RotationCountIsChanges ==
    (prog = "rotation" /\ pc = "returned") =>
        /\ Keys(ret) = Keys(arg0)
        /\ Len(ret.rows) = Cardinality(Keys(arg0))
        /\ \A i \in DOMAIN ret.rows :
              LET g == RecordsOf(arg0, ret.rows[i]["field_id"])
              IN /\ ret.rows[i]["rotation_count"] = Num(YearToYearChanges(g))
                 /\ ret.rows[i]["year_count"] = Num(Len(g))
                 /\ ret.rows[i]["crop_sequence"] =
                        <<"list", [j \in DOMAIN g |-> g[j]["crop_code"][2]]>>

\* The positions of the records of the field of record i whose date lies in
\* the w days ending at the date of record i.
InWindow(t, w, i) ==
    {j \in DOMAIN t.rows :
        /\ t.rows[j]["field_id"] = t.rows[i]["field_id"]
        /\ t.rows[j]["date"][2] <= t.rows[i]["date"][2]
        /\ t.rows[j]["date"][2] > t.rows[i]["date"][2] - w}

\* C24: calculate_accumulated_precipitation gives each record, as
\* precip_accum, the sum of PRECTOTCORR over the records of its field dated
\* within the window_days days ending at its date, in whatever order the
\* rows come; the record itself is otherwise as it was.
C24_PrecipAccumIsWindowSum ==
    (prog = "precip" /\ pc = "returned") =>
        /\ Len(ret.rows) = Len(arg0.rows)
        /\ \A i \in DOMAIN ret.rows :
              /\ \A c \in SeqRange(arg0.cols) : ret.rows[i][c] = arg0.rows[i][c]
              /\ ret.rows[i]["precip_accum"] =
                     Num(SumAt(arg0, InWindow(arg0, log[1][2], i), "PRECTOTCORR"))

Least(a, b) == IF a <= b THEN a ELSE b
Greatest(a, b) == IF a >= b THEN a ELSE b

\* max(0, min((T2M_MIN + T2M_MAX) / 2, max_temp) - base_temp) of record i of
\* the frame given, in half degrees.
ExpectedGdd(i) ==
    LET r == arg0.rows[i]
    IN Greatest(0, Least(r["T2M_MIN"][2] + r["T2M_MAX"][2], 2 * log[2][2]) - 2 * log[1][2])

RECURSIVE SumExpectedGdd(_)
SumExpectedGdd(S) ==
    IF S = {} THEN 0
    ELSE LET j == CHOOSE k \in S : TRUE IN ExpectedGdd(j) + SumExpectedGdd(S \ {j})

\* C25: calculate_growing_degree_days gives every record gdd = max(0,
\* min((T2M_MIN + T2M_MAX) / 2, max_temp) - base_temp), between 0 and
\* max(0, max_temp - base_temp); gdd_cumulative is the running sum of gdd over
\* the records of the same field in row order, so it never falls within a
\* field and holds nothing of another field; the frame passed is unchanged.
C25_GddAndRunningSum ==
    (prog = "gdd" /\ pc = "returned") =>
        /\ arg = arg0
        /\ Len(ret.rows) = Len(arg0.rows)
        /\ \A i \in DOMAIN ret.rows :
              /\ \A c \in SeqRange(arg0.cols) : ret.rows[i][c] = arg0.rows[i][c]
              /\ ret.rows[i]["gdd"] = Mean(ExpectedGdd(i), 2)
              /\ ret.rows[i]["gdd"][2] >= 0
              /\ ret.rows[i]["gdd"][2] <= Greatest(0, 2 * log[2][2] - 2 * log[1][2])
              /\ ret.rows[i]["gdd_cumulative"] =
                     Mean(SumExpectedGdd({j \in 1 .. i :
                              arg0.rows[j]["field_id"] = arg0.rows[i]["field_id"]}), 2)
              /\ \A j \in 1 .. (i - 1) :
                     arg0.rows[j]["field_id"] = arg0.rows[i]["field_id"] =>
                         ret.rows[j]["gdd_cumulative"][2] <= ret.rows[i]["gdd_cumulative"][2]

\* Records of two fields alternate; one is capped at max_temp, one is below
\* base_temp, and the running sum of the first field has skipped the record
\* of the other field between its two records.
C25_Witness ==
    /\ prog = "gdd" /\ pc = "returned" /\ Len(ret.rows) = 3
    /\ ret.rows[1]["field_id"] = ret.rows[3]["field_id"]
    /\ ret.rows[2]["field_id"] # ret.rows[1]["field_id"]
    /\ ret.rows[1]["gdd"] = Mean(40, 2)
    /\ ret.rows[2]["gdd"][2] > 0
    /\ ret.rows[3]["gdd"] = Mean(0, 2)
    /\ ret.rows[3]["gdd_cumulative"] = Mean(40, 2)

\* The queries sent and the files written by the calls so far.
QueriesSent == SelectSeq(log, LAMBDA e : e[1] = "query")
FilesWritten == SelectSeq(log, LAMBDA e : e[1] = "saved")

\* C26: FieldBoundaryDownloader.download(count=n) raises, or returns a table
\* that is not empty, has at most n fields, each of an area above 0, is in
\* EPSG:4326 and is the table it has saved.
C26_ReturnsSavedNonEmptyTable ==
    (prog = "downloader" /\ pc # "call") =>
        /\ pc \in {"returned", "raised"}
        /\ (pc = "raised") = (exc # "none")
        /\ pc = "returned" =>
              /\ IsGeoTable(ret)
              /\ Len(ret.rows) >= 1
              /\ Len(ret.rows) <= log[1][2]
              /\ \A i \in DOMAIN ret.rows : ret.rows[i]["area_acres"][2] > 0
              /\ ret.crs = WGS84
              /\ Len(FilesWritten) = 1
              /\ out = ret

\* The store answers with a field of no area and two others; one field was
\* asked for and the second of the store is returned.
C26_Witness ==
    /\ prog = "downloader" /\ pc = "returned"
    /\ svc = <<"up", <<0, 40469, 40469>>>>
    /\ log[1][2] = 1
    /\ Len(ret.rows) = 1 /\ ret.rows[1]["field_id"] = Id(2)

\* The arguments of the call, as lines 100-101 leave them, are not valid.
BadArguments ==
    LET regions == IF log[1][3] = <<>> THEN <<"corn_belt">> ELSE log[1][3]
        crops == IF log[1][4] = <<>> THEN <<"corn", "soybeans">> ELSE log[1][4]
    IN \/ log[1][2] < 1
       \/ \E i \in DOMAIN regions : regions[i] \notin DOMAIN REGION_STATE_FIPS
       \/ \E i \in DOMAIN crops : crops[i] \notin DOMAIN CROP_TYPES

\* C27: FieldBoundaryDownloader.download with count < 1, a region outside
\* REGION_STATE_FIPS or a crop outside CROP_TYPES raises ValueError; no query
\* has been sent and no field file written.
C27_BadArgumentsRaiseFirst ==
    (prog = "downloader" /\ pc # "call" /\ BadArguments) =>
        /\ pc = "raised" /\ exc = "ValueError"
        /\ QueriesSent = <<>>
        /\ FilesWritten = <<>> /\ out = NoTable

\* An unknown crop, with a valid count and valid regions, on a store that
\* would have answered.
C27_Witness ==
    /\ prog = "downloader" /\ pc = "raised"
    /\ log[1][2] = 1 /\ log[1][3] = <<"southeast">> /\ log[1][4] = <<"rice">>
    /\ svc[1] = "up" /\ Len(svc[2]) > 0

\* export has been called with no output_path.
ExportedToDefault ==
    \E i \in DOMAIN log : log[i][1] = "export" /\ log[i][2] = NoFile

\* C28: a FieldBoundariesSkill made with no config or with a Config object is
\* constructed without an exception, and its export with no output_path
\* resolves config.raw_data_path.
C28_SkillConstructs ==
    (prog = "skill" /\ arg \in {ConfigNone, ConfigObject("data")}) =>
        /\ pc # "failed"
        /\ exc # "TypeError"
        /\ ExportedToDefault => exc # "AttributeError"

\* The file name of a path names the CRS of the fields.
CarriesCrs(path) == \E i \in DOMAIN path[2] : path[2][i] = "EPSG4326"

\* C29: FieldBoundariesSkill.download with no output_path saves the fields at
\* the default location under fields_EPSG4326.geojson; with an output_path it
\* saves them at that path; every field file it writes has the CRS in its
\* name.
C29_FieldFilesNameTheCrs ==
    (prog = "skill" /\ pc = "downloaded") =>
        /\ log[1][3] = NoFile =>
              \E i \in DOMAIN FilesWritten :
                  FilesWritten[i][2] =
                      FilePath("data/raw/field_boundaries",
                               <<"fields_", "EPSG4326", ".", "geojson">>)
        /\ log[1][3] # NoFile =>
              \E i \in DOMAIN FilesWritten : FilesWritten[i][2] = log[1][3]
        /\ \A i \in DOMAIN FilesWritten : CarriesCrs(FilesWritten[i][2])

====
